---------------------------- MODULE Spec2Model ----------------------------
(***************************************************************************)
(* harmony-py, harmony/client.py: the result iterator (Client.iterator),   *)
(* the download dispatcher (Client.download) and the download task         *)
(* (Client._download_file) that runs on the client's thread pool.          *)
(*                                                                         *)
(* An iterator is a Python generator.  Its body runs only while the caller *)
(* is inside next(); it is suspended at every yield.  One action of the    *)
(* model runs the generator from one call of Client._get_json (or from a   *)
(* resumption by the caller) to the next call of _get_json, the next       *)
(* yield, the return or the raise.                                         *)
(***************************************************************************)
EXTENDS Integers, Sequences, FiniteSets, TLC

(***************************************************************************)
(* Bounds of the model.                                                    *)
(***************************************************************************)
NumIters == 2          \* iterators the caller may create for the one job
NumPages == 2          \* distinct status-page URLs the service may name
MaxLinks == 2          \* links in one status document
MaxAttempts == 3       \* calls of _get_json in a run of one iterator
MaxAttemptsTwo == 2    \* calls of _get_json in a run of several iterators
MaxLinksTwo == 1       \* links in one status document in such a run
MaxAttemptsPool == 1   \* calls of _get_json in a run with the thread pool
MaxLinksPool == 1      \* links in one status document in such a run
MaxRetryLimit == 2     \* largest GET_JSON_RETRY_LIMIT the environment sets
MaxWorkers == 2        \* largest NUM_REQUESTS_WORKERS the environment sets
MaxCalls == 1          \* direct calls of Client.download by the caller
MaxAttemptsStream == 2 \* calls of _get_json in a run of an iterator and the pool
MaxLinksStream == 2    \* links in one status document in such a run
MaxStops == 1          \* calls of next() on a generator that has ended
MaxInterval == 2       \* largest check_interval, in ticks of the clock
MaxElapsed == 3        \* longest time from a fetch to line 1122, in ticks
MaxPolls == 3          \* calls of Client.progress in one wait_for_processing
MaxAttemptsLive == 1   \* calls of _get_json counted in a run that goes on for ever
MaxLinksLive == 1      \* links in one status document in such a run
MaxSessionCalls == 3   \* calls of Client._session after the client is built

Iters == 1 .. NumIters
URLs == 1 .. NumPages
NoUrl == 0             \* Python None in next_url

(***************************************************************************)
(* URLs of result items.  A URL is kept as its parts: the directory part,  *)
(* the last path segment without its suffix, and the suffix.  Two URLs     *)
(* with different directories share a download filename.                   *)
(***************************************************************************)
Href(d, b, e) == [dir |-> d, base |-> b, ext |-> e]

\* str.endswith('zarr'), client.py line 950
EndsWithZarr(url) == url.ext = "zarr"

\* get_download_filename_from_url for a result that is not staged: the last
\* path segment of the URL.
get_download_filename_from_url(url) == <<url.base, url.ext>>

DocHrefs == { Href("d1", "g1", "nc"), Href("d1", "g2", "nc"), Href("d1", "g3", "zarr") }
CallHrefs == DocHrefs \cup { Href("d2", "g1", "nc") }
Filenames == { get_download_filename_from_url(u) : u \in CallHrefs }

(***************************************************************************)
(* Status documents.  empty is TRUE for a response that parses to a falsy  *)
(* value ({} or null).  status "absent" stands for a document without a    *)
(* status key (response.get('status') is None), "accepted" for a status    *)
(* the client has no case for.  A data link without bbox/temporal has      *)
(* meta = FALSE.                                                           *)
(***************************************************************************)
Statuses == { "running", "running_with_errors", "paused", "canceled",
              "successful", "complete_with_errors", "failed", "accepted", "absent" }

DataLink(h, m) == [rel |-> "data", href |-> h, url |-> NoUrl, meta |-> m]
NextLink(u) == [rel |-> "next", href |-> Href("", "", ""), url |-> u, meta |-> FALSE]
SelfLink == [rel |-> "self", href |-> Href("", "", ""), url |-> NoUrl, meta |-> FALSE]

Links == { DataLink(h, TRUE) : h \in DocHrefs }
           \cup { DataLink(Href("d1", "g2", "nc"), FALSE) }
           \cup { NextLink(u) : u \in URLs }
           \cup { SelfLink }

LinkSeqs == UNION { [1 .. n -> Links] : n \in 0 .. MaxLinks }

Doc(s, m, l) == [empty |-> FALSE, status |-> s, message |-> m, links |-> l]
EmptyDoc == [empty |-> TRUE, status |-> "absent", message |-> "m1", links |-> <<>>]

\* The documents _get_json may return: the message of a document is read
\* only when its status is failed.
Docs == { Doc(s, "m1", l) : s \in Statuses, l \in LinkSeqs }
          \cup { Doc("failed", "m2", l) : l \in LinkSeqs }

\* The data links of a document, in document order (their hrefs).
RECURSIVE DataHrefs(_)
DataHrefs(links) ==
    IF links = <<>> THEN <<>>
    ELSE IF Head(links).rel = "data"
         THEN <<Head(links).href>> \o DataHrefs(Tail(links))
         ELSE DataHrefs(Tail(links))

IsPrefix(s, t) == Len(s) <= Len(t) /\ SubSeq(t, 1, Len(s)) = s


(***************************************************************************)
(* State.                                                                  *)
(*   iter[i]    the generator created by the i-th call of Client.iterator: *)
(*              where it stands (pc) and its local variables               *)
(*   log[i]     what that generator did from the first _get_json call of   *)
(*              its latest fetch on, in order (history)                    *)
(*   yields[i]  every descriptor that generator has yielded, in order      *)
(*              (history)                                                  *)
(*   hist[i]    the page that generator fetched last and what it had       *)
(*              fetched before (history)                                   *)
(*   tasks      the executor's submissions, in submission order; a         *)
(*              task's position is its future                              *)
(*   files      the local files, by filename                               *)
(*   requests   the download requests sent through the session             *)
(*   env        GET_JSON_RETRY_LIMIT and NUM_REQUESTS_WORKERS of the       *)
(*              process environment, and the client's check_interval       *)
(*   attempts   calls of _get_json made so far                             *)
(*   calls      the direct calls of Client.download made so far, each with *)
(*              its outcome                                                *)
(*   bound      what this run is limited to (see Bound)                    *)
(***************************************************************************)
VARIABLES iter, log, yields, hist, tasks, files, requests, env, attempts, calls, bound,
          wait, sess

vars ==
    <<iter, log, yields, hist, tasks, files, requests, env, attempts, calls, bound, wait,
      sess>>

\* _status_url(job_id): the job's first status page
StatusUrl == 1

\* secs: for a sleep its length, for a reload seconds_since_last_pull of
\* line 1122, in ticks of the clock
Event(e, u, m) == [ev |-> e, url |-> u, msg |-> m, secs |-> 0]
Yield(u, n, h, t, p) == [url |-> u, idx |-> n, href |-> h, future |-> t, page |-> p]

\* The generator's frame.  links holds what the for loop of line 1093 has
\* still to visit; fresh is TRUE until the first _get_json call of a fetch;
\* stops counts the calls of next() made after the generator ended.
NoIterator ==
    [pc |-> "none", overwrite |-> FALSE, limit |-> 0, next_url |-> NoUrl,
     self_url |-> NoUrl, current_page_granule_count |-> 0,
     get_json_try_count |-> 0, status |-> "absent", links |-> <<>>,
     link_index |-> 0, fresh |-> FALSE, stops |-> 0]

(***************************************************************************)
(* History of one generator.                                               *)
(*   why         what led to the fetch in progress: "start" (line 1061),   *)
(*               "next" (line 1107) or "reload" (line 1120)                *)
(*   n           pages fetched                                             *)
(*   came        what led to the fetch of the page fetched last            *)
(*   url, status, message, data, next                                      *)
(*               the page fetched last: its URL, status, message, data     *)
(*               links and the URL of its next link                        *)
(*   seen, at    current_page_granule_count and the number of yields when  *)
(*               that page arrived                                         *)
(*   stay_no     pages reached by line 1061 or through a next link         *)
(*   stay_from   the number of yields when the latest of those arrived     *)
(*   stay_grown  every reload since then showed the data links of the      *)
(*               fetch before, in the same positions, and possibly more    *)
(*   polled      some page was reloaded                                    *)
(*   expect      the data links of the pages reached by line 1061 or       *)
(*               through a next link, as they arrived, one after another   *)
(*   failed      calls of _get_json that raised, counted up to             *)
(*               bound.attempts                                            *)
(***************************************************************************)
NoHistory ==
    [why |-> "start", n |-> 0, came |-> "start", url |-> NoUrl, status |-> "absent", message |-> "m1",
     data |-> <<>>, next |-> NoUrl, seen |-> 0, at |-> 0, stay_no |-> 0,
     stay_from |-> 0, stay_grown |-> TRUE, polled |-> FALSE, expect |-> <<>>,
     failed |-> 0]

\* The URL of the next link of a document: the last one, or None.
RECURSIVE NextOf(_)
NextOf(links) ==
    IF links = <<>> THEN NoUrl
    ELSE LET r == NextOf(Tail(links)) IN
         IF r # NoUrl THEN r
         ELSE IF Head(links).rel = "next" THEN Head(links).url ELSE NoUrl

\* A task as submitted: executor.submit(self._download_file, url, directory, overwrite).
\* err_at: the number of descriptors its iterator had yielded when it failed.
NewTask(url, overwrite, by) ==
    [url |-> url, overwrite |-> overwrite, by |-> by, st |-> "queued",
     existed |-> FALSE, requested |-> FALSE, wrote |-> FALSE, result |-> <<>>,
     err_at |-> 0]

download_NoZarrCheck(url, overwrite, by) ==
    [ok |-> TRUE, sub |-> <<NewTask(url, overwrite, by)>>]

(***************************************************************************)
(* Client.download(url, directory, overwrite), lines 950-953: ok is TRUE   *)
(* and sub holds the task when the task was submitted, ok is FALSE when    *)
(* zarr_download_exception was raised.                                     *)
(***************************************************************************)
download(url, overwrite, by) ==
    IF EndsWithZarr(url)
    THEN [ok |-> FALSE, sub |-> <<>>]
    ELSE [ok |-> TRUE, sub |-> <<NewTask(url, overwrite, by)>>]

\* An exception leaves the generator: its frame is gone.
Raise(c, e, m) ==
    [c EXCEPT !.loc.pc = "raised", !.loc.links = <<>>,
              !.log = Append(@, Event(e, c.loc.self_url, m))]

WhileTop_KeepsTryCount(c) ==
    [c EXCEPT !.loc.pc = "fetching",
              !.loc.self_url = c.loc.next_url,
              !.loc.links = <<>>,
              !.loc.fresh = TRUE]

\* lines 1069-1073: the top of `while next_url`, up to the first _get_json
WhileTop(c) ==
    [c EXCEPT !.loc.pc = "fetching",
              !.loc.self_url = c.loc.next_url,
              !.loc.links = <<>>,
              !.loc.fresh = TRUE,
              !.loc.get_json_try_count = 0]

\* line 1110: the statuses at which the generator ends
TerminalStatuses_NoPaused == { "successful", "canceled", "complete_with_errors" }
TerminalStatuses == { "successful", "paused", "canceled", "complete_with_errors" }

\* lines 1111-1116: no next link and the job has ended
Return(c) ==
    [c EXCEPT !.loc.pc = "returned",
              !.log = Append(@, Event("return", c.loc.self_url, ""))]

Reload_ForgetsSeen(c, elapsed) ==
    WhileTop([c EXCEPT !.loc.next_url = c.loc.self_url,
                       !.loc.current_page_granule_count = 0,
                       !.hist.why = "reload",
                       !.hist.polled = TRUE,
                       !.log = Append(@, Event("reload", c.loc.self_url, ""))])

Reload_FirstPage(c, elapsed) ==
    WhileTop([c EXCEPT !.loc.next_url = StatusUrl,
                       !.hist.why = "reload",
                       !.hist.polled = TRUE,
                       !.log = Append(@, Event("reload", c.loc.self_url, ""))])

Reload_NeverSleeps(c, elapsed) ==
    WhileTop([c EXCEPT !.loc.next_url = c.loc.self_url,
                       !.hist.why = "reload",
                       !.hist.polled = TRUE,
                       !.log = Append(@, [Event("reload", c.loc.self_url, "")
                                             EXCEPT !.secs = elapsed])])

\* lines 1117-1125 and back to line 1069: no next link and the job goes on.
\* elapsed: seconds_since_last_pull, the time from line 1071 to line 1122.
Reload(c, elapsed) ==
    LET reload == [Event("reload", c.loc.self_url, "") EXCEPT !.secs = elapsed]
        sleep == [Event("sleep_pace", c.loc.self_url, "")
                     EXCEPT !.secs = c.check_interval - elapsed]
    IN WhileTop([c EXCEPT !.loc.next_url = c.loc.self_url,
                          !.hist.why = "reload",
                          !.hist.polled = TRUE,
                          !.log = IF elapsed < c.check_interval
                                  THEN Append(Append(@, reload), sleep)
                                  ELSE Append(@, reload)])

FollowNext_KeepsSeen(c) ==
    WhileTop([c EXCEPT !.loc.link_index = 0,
                       !.hist.why = "next",
                       !.log = Append(@, Event("follow_next", c.loc.self_url, ""))])

\* lines 1126-1129 and back to line 1069: the page had a next link
FollowNext(c) ==
    WhileTop([c EXCEPT !.loc.link_index = 0,
                       !.loc.current_page_granule_count = 0,
                       !.hist.why = "next",
                       !.log = Append(@, Event("follow_next", c.loc.self_url, ""))])

AfterLoop_KeepsSeenOnSameUrl(c, elapsed) ==
    IF c.loc.next_url = NoUrl
    THEN IF c.loc.status \in TerminalStatuses
         THEN Return(c)
         ELSE Reload(c, elapsed)
    ELSE IF c.loc.next_url = c.loc.self_url
         THEN FollowNext_KeepsSeen(c)
         ELSE FollowNext(c)

AfterLoop_NeverReturns(c, elapsed) ==
    IF c.loc.next_url = NoUrl
    THEN Reload(c, elapsed)
    ELSE FollowNext(c)

AfterLoop_OnlyRunningReloads(c, elapsed) ==
    IF c.loc.next_url = NoUrl
    THEN IF c.loc.status \in {"running", "running_with_errors"}
         THEN Reload(c, elapsed)
         ELSE Return(c)
    ELSE FollowNext(c)

AfterLoop_StatusFirst(c, elapsed) ==
    IF c.loc.status \in TerminalStatuses
    THEN Return(c)
    ELSE IF c.loc.next_url = NoUrl
         THEN Reload(c, elapsed)
         ELSE FollowNext(c)

\* lines 1109-1129: after the for loop
AfterLoop(c, elapsed) ==
    IF c.loc.next_url = NoUrl
    THEN IF c.loc.status \in TerminalStatuses
         THEN Return(c)
         ELSE Reload(c, elapsed)
    ELSE FollowNext(c)

RECURSIVE ForLoop_YieldsSeenAgain(_, _, _)
ForLoop_YieldsSeenAgain(c, it, elapsed) ==
    LET l == c.loc IN
    IF l.links = <<>>
    THEN AfterLoop(c, elapsed)
    ELSE LET link == Head(l.links)
             c0 == [c EXCEPT !.loc.links = Tail(l.links)]
         IN
         IF link.rel = "data"
         THEN LET li == l.link_index + 1 IN
              IF li >= l.current_page_granule_count
              THEN LET d == download(link.href, l.overwrite, it)
                       c1 == [c0 EXCEPT !.loc.link_index = li,
                                        !.loc.current_page_granule_count = li,
                                        !.sub = d.sub]
                   IN IF ~d.ok
                      THEN Raise(c1, "raise_zarr", "zarr")
                      ELSE IF ~link.meta
                      THEN Raise(c1, "raise_keyerror", "bbox")
                      ELSE [c1 EXCEPT !.loc.pc = "yielded",
                                      !.log = Append(@, Event("yield", l.self_url, "")),
                                      !.out = <<Yield(l.self_url, li, link.href,
                                                      c.ntasks + 1, c.hist.stay_no)>>]
              ELSE ForLoop_YieldsSeenAgain([c0 EXCEPT !.loc.link_index = li], it, elapsed)
         ELSE IF link.rel = "next"
         THEN ForLoop_YieldsSeenAgain([c0 EXCEPT !.loc.next_url = link.url], it, elapsed)
         ELSE ForLoop_YieldsSeenAgain(c0, it, elapsed)

\* lines 1093-1107: the for loop over the links still to visit, up to the
\* next yield or raise, or through lines 1109-1129 when the links run out
RECURSIVE ForLoop(_, _, _)
ForLoop(c, it, elapsed) ==
    LET l == c.loc IN
    IF l.links = <<>>
    THEN AfterLoop(c, elapsed)
    ELSE LET link == Head(l.links)
             c0 == [c EXCEPT !.loc.links = Tail(l.links)]
         IN
         IF link.rel = "data"
         THEN LET li == l.link_index + 1 IN
              IF li > l.current_page_granule_count
              THEN LET d == download(link.href, l.overwrite, it)
                       c1 == [c0 EXCEPT !.loc.link_index = li,
                                        !.loc.current_page_granule_count = li,
                                        !.sub = d.sub]
                   IN IF ~d.ok
                      THEN Raise(c1, "raise_zarr", "zarr")
                      ELSE IF ~link.meta
                      THEN Raise(c1, "raise_keyerror", "bbox")
                      ELSE [c1 EXCEPT !.loc.pc = "yielded",
                                      !.log = Append(@, Event("yield", l.self_url, "")),
                                      !.out = <<Yield(l.self_url, li, link.href,
                                                      c.ntasks + 1, c.hist.stay_no)>>]
              ELSE ForLoop([c0 EXCEPT !.loc.link_index = li], it, elapsed)
         ELSE IF link.rel = "next"
         THEN ForLoop([c0 EXCEPT !.loc.next_url = link.url], it, elapsed)
         ELSE ForLoop(c0, it, elapsed)

\* What the history keeps of a fetched page.
Fetched(c, doc) ==
    LET h == c.hist
        d == DataHrefs(doc.links)
        arrived == h.why # "reload"
    IN [h EXCEPT !.n = IF @ < bound.attempts THEN @ + 1 ELSE @,
                 !.came = h.why,
                 !.url = c.loc.self_url,
                 !.status = doc.status,
                 !.message = doc.message,
                 !.data = d,
                 !.next = NextOf(doc.links),
                 !.seen = c.loc.current_page_granule_count,
                 !.at = c.nyields,
                 !.stay_no = IF arrived THEN @ + 1 ELSE @,
                 !.stay_from = IF arrived THEN c.nyields ELSE @,
                 !.stay_grown = IF arrived THEN TRUE ELSE @ /\ IsPrefix(h.data, d),
                 !.expect = IF arrived THEN @ \o d ELSE @]

Page_IgnoresFailed(c, it, doc, elapsed) ==
    ForLoop([c EXCEPT !.loc.next_url = NoUrl, !.loc.status = doc.status,
                      !.hist = Fetched(c, doc),
                      !.loc.link_index = 0, !.loc.links = doc.links], it, elapsed)

Page_ResetsSeen(c, it, doc, elapsed) ==
    LET c1 == [c EXCEPT !.loc.next_url = NoUrl, !.loc.status = doc.status,
                        !.loc.current_page_granule_count = 0,
                        !.hist = Fetched(c, doc)]
    IN IF doc.status = "failed"
       THEN Raise(c1, "raise_failed", doc.message)
       ELSE ForLoop([c1 EXCEPT !.loc.link_index = 0, !.loc.links = doc.links], it, elapsed)

\* lines 1086-1092: a page has been fetched
Page(c, it, doc, elapsed) ==
    LET c1 == [c EXCEPT !.loc.next_url = NoUrl, !.loc.status = doc.status,
                        !.hist = Fetched(c, doc)]
    IN IF doc.status = "failed"
       THEN Raise(c1, "raise_failed", doc.message)
       ELSE ForLoop([c1 EXCEPT !.loc.link_index = 0, !.loc.links = doc.links], it, elapsed)

\* The first _get_json call of a fetch opens a new log.
Attempt(c, e) ==
    [c EXCEPT !.loc.fresh = FALSE,
              !.log = Append(IF c.loc.fresh THEN <<>> ELSE @, Event(e, c.loc.next_url, ""))]

\* lines 1075-1077: one pass of `while not response`, _get_json returning doc
GetJsonReturns(c, it, doc, elapsed) ==
    IF doc.empty
    THEN Attempt(c, "get_json_empty")
    ELSE Page(Attempt(c, "get_json_ok"), it, doc, elapsed)

GetJsonRaises_GivesUpEarly(c) ==
    LET n == c.loc.get_json_try_count + 1
        c1 == [Attempt(c, "get_json_raise") EXCEPT
                  !.loc.get_json_try_count = n,
                  !.hist.failed = IF @ < bound.attempts THEN @ + 1 ELSE @]
    IN IF n + 1 < c.loc.limit
       THEN [c1 EXCEPT !.log = Append(@, Event("sleep_retry", c.loc.next_url, ""))]
       ELSE Raise(c1, "raise_unreachable", "Failed to get or parse job status page")

GetJsonRaises_OneMore(c) ==
    LET n == c.loc.get_json_try_count + 1
        c1 == [Attempt(c, "get_json_raise") EXCEPT
                  !.loc.get_json_try_count = n,
                  !.hist.failed = IF @ < bound.attempts THEN @ + 1 ELSE @]
    IN IF n <= c.loc.limit
       THEN [c1 EXCEPT !.log = Append(@, Event("sleep_retry", c.loc.next_url, ""))]
       ELSE Raise(c1, "raise_unreachable", "Failed to get or parse job status page")

\* lines 1078-1084: one pass of `while not response`, _get_json raising
GetJsonRaises(c) ==
    LET n == c.loc.get_json_try_count + 1
        c1 == [Attempt(c, "get_json_raise") EXCEPT
                  !.loc.get_json_try_count = n,
                  !.hist.failed = IF @ < bound.attempts THEN @ + 1 ELSE @]
    IN IF n < c.loc.limit
       THEN [c1 EXCEPT !.log = Append(@, Event("sleep_retry", c.loc.next_url, ""))]
       ELSE Raise(c1, "raise_unreachable", "Failed to get or parse job status page")

Start_SharedCursor(c, limit) ==
    WhileTop([c EXCEPT !.loc.limit = limit,
                       !.loc.next_url = StatusUrl,
                       !.loc.current_page_granule_count =
                           iter[1].current_page_granule_count,
                       !.hist.why = "start"])

\* lines 1059-1067: the generator's first resumption
Start(c, limit) ==
    WhileTop([c EXCEPT !.loc.limit = limit,
                       !.loc.next_url = StatusUrl,
                       !.loc.current_page_granule_count = 0,
                       !.hist.why = "start"])

Config(it) ==
    [loc |-> iter[it], log |-> log[it], hist |-> hist[it], sub |-> <<>>, out |-> <<>>,
     ntasks |-> Len(tasks), nyields |-> Len(yields[it]),
     check_interval |-> env.check_interval]

Commit_CancelsAtEnd(it, c) ==
    /\ iter' = [iter EXCEPT ![it] = c.loc]
    /\ log' = [log EXCEPT ![it] = c.log]
    /\ hist' = [hist EXCEPT ![it] = c.hist]
    /\ yields' = [yields EXCEPT ![it] = @ \o c.out]
    /\ tasks' = IF c.loc.pc \in {"returned", "raised"}
                THEN [t \in 1 .. Len(tasks) |->
                        IF tasks[t].by = it /\ tasks[t].st = "queued"
                        THEN [tasks[t] EXCEPT !.st = "cancelled"] ELSE tasks[t]]
                ELSE tasks \o c.sub

\* What a run of the generator leaves behind: its frame, its log and
\* history, the descriptors yielded and the tasks submitted.
Commit(it, c) ==
    /\ iter' = [iter EXCEPT ![it] = c.loc]
    /\ log' = [log EXCEPT ![it] = c.log]
    /\ hist' = [hist EXCEPT ![it] = c.hist]
    /\ yields' = [yields EXCEPT ![it] = @ \o c.out]
    /\ tasks' = tasks \o c.sub

(***************************************************************************)
(* Actions of the caller and of the generator.                             *)
(***************************************************************************)
\* iterator(job_id, directory, overwrite): creates the generator; no line
\* of its body runs yet
Iterator(it, overwrite) ==
    /\ iter[it].pc = "none"
    /\ it <= bound.iters
    /\ overwrite \in bound.overwrite
    /\ \A j \in Iters : j < it => iter[j].pc # "none"
    /\ iter' = [iter EXCEPT ![it] = [NoIterator EXCEPT !.pc = "created",
                                                       !.overwrite = overwrite]]
    /\ UNCHANGED <<log, yields, hist, tasks, files, requests, env, attempts, calls, bound, wait, sess>>

\* next(iter) on a generator that has not started
NextFirst(it) ==
    /\ iter[it].pc = "created"
    /\ Commit(it, Start(Config(it), env.GET_JSON_RETRY_LIMIT))
    /\ UNCHANGED <<files, requests, env, attempts, calls, bound, wait, sess>>

NextResume_ResolvesFuture(it, elapsed) ==
    /\ iter[it].pc = "yielded"
    /\ LET t == yields[it][Len(yields[it])].future IN
       IF tasks[t].st = "error"
       THEN Commit(it, Raise(Config(it), "raise_download", ""))
       ELSE Commit(it, ForLoop(Config(it), it, elapsed))
    /\ UNCHANGED <<files, requests, env, attempts, calls, bound, wait, sess>>

NextResume_WaitsForFuture(it, elapsed) ==
    /\ iter[it].pc = "yielded"
    /\ tasks[yields[it][Len(yields[it])].future].st \in {"done", "error"}
    /\ Commit(it, ForLoop(Config(it), it, elapsed))
    /\ UNCHANGED <<files, requests, env, attempts, calls, bound, wait, sess>>

\* next(iter) on a generator suspended at the yield of line 1101
NextResume(it, elapsed) ==
    /\ iter[it].pc = "yielded"
    /\ Commit(it, ForLoop(Config(it), it, elapsed))
    /\ UNCHANGED <<files, requests, env, attempts, calls, bound, wait, sess>>

\* _get_json(next_url) returns a document
GetJsonOk(it, doc, elapsed) ==
    /\ iter[it].pc = "fetching"
    /\ attempts < bound.attempts
    /\ Len(doc.links) <= bound.links
    /\ doc.empty \/ doc.status \in bound.statuses
    /\ attempts' = attempts + 1
    /\ Commit(it, GetJsonReturns(Config(it), it, doc, elapsed))
    /\ UNCHANGED <<files, requests, env, calls, bound, wait, sess>>

NextEnded_Restarts(it) ==
    /\ iter[it].pc \in {"returned", "raised"}
    /\ iter[it].stops < MaxStops
    /\ iter' = [iter EXCEPT ![it] = [NoIterator EXCEPT !.pc = "created",
                                                       !.stops = iter[it].stops + 1]]
    /\ UNCHANGED <<log, yields, hist, tasks, files, requests, env, attempts, calls, bound, wait, sess>>

\* next(iter) on a generator that has returned or raised: Python raises
\* StopIteration and runs no line of the body
NextEnded(it) ==
    /\ iter[it].pc \in {"returned", "raised"}
    /\ iter[it].stops < MaxStops
    /\ iter' = [iter EXCEPT ![it].stops = @ + 1]
    /\ UNCHANGED <<log, yields, hist, tasks, files, requests, env, attempts, calls, bound, wait, sess>>

\* _get_json(next_url) raises
GetJsonFail(it) ==
    /\ iter[it].pc = "fetching"
    /\ attempts < bound.attempts
    /\ attempts' = attempts + 1
    /\ Commit(it, GetJsonRaises(Config(it)))
    /\ UNCHANGED <<files, requests, env, calls, bound, wait, sess>>

\* _get_json(next_url) returns a page of a service whose next links lead
\* forward only; the calls of _get_json are counted up to bound.attempts
GetJsonOkForward(it, doc, elapsed) ==
    /\ iter[it].pc = "fetching"
    /\ Len(doc.links) <= bound.links
    /\ doc.status \in bound.statuses
    /\ NextOf(doc.links) = NoUrl \/ NextOf(doc.links) > iter[it].self_url
    /\ attempts' = IF attempts < bound.attempts THEN attempts + 1 ELSE attempts
    /\ Commit(it, GetJsonReturns(Config(it), it, doc, elapsed))
    /\ UNCHANGED <<files, requests, env, calls, bound, wait, sess>>

\* _get_json(next_url) raises, and the retry limit is not reached by it
GetJsonFailBelowLimit(it) ==
    /\ iter[it].pc = "fetching"
    /\ iter[it].get_json_try_count + 1 < iter[it].limit
    /\ attempts' = IF attempts < bound.attempts THEN attempts + 1 ELSE attempts
    /\ Commit(it, GetJsonRaises(Config(it)))
    /\ UNCHANGED <<files, requests, env, calls, bound, wait, sess>>

(***************************************************************************)
(* The thread pool and the download task.                                  *)
(***************************************************************************)
File(state, writer) == [state |-> state, writer |-> writer]
Absent == File("absent", 0)       \* no file of that name
Old == File("old", 0)             \* a file left by an earlier run

\* os.path.isfile(filename), line 897
isfile(fn) == files[fn].state # "absent"

ShortCircuits_IgnoresOverwrite(overwrite, exists) == exists

\* line 897: `not overwrite and os.path.isfile(filename)`
ShortCircuits(overwrite, exists) == ~overwrite /\ exists

Requesting == { "requesting", "responded", "copying" }
Tasks == 1 .. Len(tasks)
FilenameOf(t) == get_download_filename_from_url(tasks[t].url)
YieldsOf(by) == IF by \in Iters THEN Len(yields[by]) ELSE 0

\* download(url, directory, overwrite) called by the caller itself
Download(url, overwrite) ==
    /\ Len(calls) < bound.calls
    /\ LET d == download(url, overwrite, 0) IN
       /\ tasks' = tasks \o d.sub
       /\ calls' = Append(calls, [url |-> url, raised |-> ~d.ok,
                                  future |-> IF d.ok THEN Len(tasks) + 1 ELSE 0])
    /\ UNCHANGED <<iter, log, yields, hist, files, requests, env, attempts, bound, wait, sess>>

TaskStart_NoLimit(t) ==
    /\ tasks[t].st = "queued"
    /\ \A j \in 1 .. t - 1 : tasks[j].st # "queued"
    /\ LET exists == isfile(FilenameOf(t)) IN
       tasks' = [tasks EXCEPT ![t].existed = exists,
                              ![t].st = IF ShortCircuits(tasks[t].overwrite, exists)
                                        THEN "done" ELSE "requesting",
                              ![t].result = IF ShortCircuits(tasks[t].overwrite, exists)
                                            THEN FilenameOf(t) ELSE @]
    /\ UNCHANGED <<iter, log, yields, hist, files, requests, env, attempts, calls, bound, wait, sess>>

\* A free worker of the executor takes the task queued first and runs
\* _download_file up to line 897 (lines 889-899); the task resolves to the
\* filename at once when the file is there and is not to be overwritten.
TaskStart(t) ==
    /\ tasks[t].st = "queued"
    /\ \A j \in 1 .. t - 1 : tasks[j].st # "queued"
    /\ Cardinality({j \in Tasks : tasks[j].st \in Requesting}) < env.NUM_REQUESTS_WORKERS
    /\ LET exists == isfile(FilenameOf(t)) IN
       tasks' = [tasks EXCEPT ![t].existed = exists,
                              ![t].st = IF ShortCircuits(tasks[t].overwrite, exists)
                                        THEN "done" ELSE "requesting",
                              ![t].result = IF ShortCircuits(tasks[t].overwrite, exists)
                                            THEN FilenameOf(t) ELSE @]
    /\ UNCHANGED <<iter, log, yields, hist, files, requests, env, attempts, calls, bound, wait, sess>>

\* lines 901-912: the request is sent; it brings a response or raises
TaskRequest(t, ok) ==
    /\ tasks[t].st = "requesting"
    /\ requests' = Append(requests, [task |-> t, url |-> tasks[t].url])
    /\ tasks' = [tasks EXCEPT ![t].requested = TRUE,
                              ![t].st = IF ok THEN "responded" ELSE "error",
                              ![t].err_at = IF ok THEN @ ELSE YieldsOf(tasks[t].by)]
    /\ UNCHANGED <<iter, log, yields, hist, files, env, attempts, calls, bound, wait, sess>>

\* line 913: open(filename, 'wb') creates the file or empties it
TaskOpen(t) ==
    /\ tasks[t].st = "responded"
    /\ files' = [files EXCEPT ![FilenameOf(t)] = File("partial", t)]
    /\ tasks' = [tasks EXCEPT ![t].wrote = TRUE, ![t].st = "copying"]
    /\ UNCHANGED <<iter, log, yields, hist, requests, env, attempts, calls, bound, wait, sess>>

TaskCopy_ResetsCount(t, ok) ==
    /\ tasks[t].st = "copying"
    /\ LET fn == FilenameOf(t)
           alone == files[fn] = File("partial", t)
       IN IF ok
          THEN /\ files' = [files EXCEPT ![fn] = File(IF alone THEN "full" ELSE "mixed", t)]
               /\ tasks' = [tasks EXCEPT ![t].st = "done", ![t].result = fn]
               /\ iter' = iter
          ELSE /\ files' = files
               /\ tasks' = [tasks EXCEPT ![t].st = "error",
                                         ![t].err_at = YieldsOf(tasks[t].by)]
               /\ iter' = [i \in Iters |->
                             IF i = tasks[t].by
                             THEN [iter[i] EXCEPT !.current_page_granule_count = 0]
                             ELSE iter[i]]
    /\ UNCHANGED <<log, yields, hist, requests, env, attempts, calls, bound, wait, sess>>

TaskCopy_SwallowsError(t, ok) ==
    /\ tasks[t].st = "copying"
    /\ LET fn == FilenameOf(t)
           alone == files[fn] = File("partial", t)
       IN IF ok
          THEN /\ files' = [files EXCEPT ![fn] = File(IF alone THEN "full" ELSE "mixed", t)]
               /\ tasks' = [tasks EXCEPT ![t].st = "done", ![t].result = fn]
          ELSE /\ files' = files
               /\ tasks' = [tasks EXCEPT ![t].st = "done", ![t].result = fn]
    /\ UNCHANGED <<iter, log, yields, hist, requests, env, attempts, calls, bound, wait, sess>>

\* lines 914-916: shutil.copyfileobj copies the body and the task resolves
\* to the filename, or reading the body raises.  The file holds the body
\* when no other task has opened it since this one did.
TaskCopy(t, ok) ==
    /\ tasks[t].st = "copying"
    /\ LET fn == FilenameOf(t)
           alone == files[fn] = File("partial", t)
       IN IF ok
          THEN /\ files' = [files EXCEPT ![fn] = File(IF alone THEN "full" ELSE "mixed", t)]
               /\ tasks' = [tasks EXCEPT ![t].st = "done", ![t].result = fn]
          ELSE /\ files' = files
               /\ tasks' = [tasks EXCEPT ![t].st = "error",
                                         ![t].err_at = YieldsOf(tasks[t].by)]
    /\ UNCHANGED <<iter, log, yields, hist, requests, env, attempts, calls, bound, wait, sess>>

(***************************************************************************)
(* Client.wait_for_processing (lines 674-736).  The call blocks its        *)
(* caller; a step is the call itself up to its first request, or the       *)
(* arrival of the answer to Client.progress and everything the method does *)
(* with it up to its next request, its return or its raise.  Seconds are   *)
(* counted in hundredths, progress in tenths of a percent.                 *)
(*   polled   the statuses Client.progress returned, in order              *)
(*   log      what the method did since the last of them: prints, updates  *)
(*            of the progress bar and sleeps                               *)
(***************************************************************************)
NoExc == [type |-> "none", job_id |-> "", message |-> ""]
NoWait ==
    [pc |-> "none", show_progress |-> FALSE, progress |-> 0, status |-> "absent",
     message |-> "", running_w_errors_logged |-> FALSE, polled |-> <<>>, log |-> <<>>,
     exc |-> NoExc]

Progresses == {0, 50, 100}
Messages == {"m1", "m2"}
Did(e, secs) == [ev |-> e, secs |-> secs]

\* Python round() of num / den for num >= 0 and den > 0: to the nearest
\* integer, a tie to the even one.
Round(num, den) ==
    LET q == num \div den
        r == num % den
    IN IF 2 * r < den THEN q
       ELSE IF 2 * r > den THEN q + 1
       ELSE IF q % 2 = 0 THEN q ELSE q + 1

\* line 688
ui_update_interval == 33
\* line 691
intervals == Round(env.check_interval * 100, ui_update_interval)

\* lines 694 and 723: the test of `while progress < 100`
WhileProgress(w) ==
    [w EXCEPT !.pc = IF w.progress < 1000 THEN "polling" ELSE "returned"]

\* lines 714-720: `for _ in range(intervals)`, n rounds of it still to run
RECURSIVE Bar(_, _)
Bar(w, n) ==
    IF n = 0 THEN w
    ELSE LET w1 == [w EXCEPT !.log = Append(@, Did("update", 0))]
         IN IF w.progress >= 1000
            THEN w1
            ELSE Bar([w1 EXCEPT !.log = Append(@, Did("sleep", ui_update_interval))], n - 1)

\* lines 702-704 and 731-733
LogRunningWithErrors(w) ==
    IF ~w.running_w_errors_logged /\ w.status = "running_with_errors"
    THEN [w EXCEPT !.running_w_errors_logged = TRUE,
                   !.log = Append(@, Did("print_errors", 0))]
    ELSE w

AfterProgress_PausedGoesOn(w, p, s, m) ==
    LET w1 == [w EXCEPT !.progress = p, !.status = s, !.message = m,
                        !.polled = Append(@, s), !.log = <<>>]
    IN IF s = "failed"
       THEN [w1 EXCEPT !.pc = "raised",
                       !.exc = [type |-> "ProcessingFailedException", job_id |-> "j1",
                                message |-> m]]
       ELSE IF s = "canceled"
       THEN [w1 EXCEPT !.pc = "returned",
                       !.log = IF w.show_progress THEN <<Did("print_canceled", 0)>> ELSE <<>>]
       ELSE LET w2 == LogRunningWithErrors(w1) IN
            IF w.show_progress
            THEN LET w3 == [w2 EXCEPT !.progress = IF p = 0 THEN 1 ELSE p]
                 IN WhileProgress(Bar(w3, intervals))
            ELSE WhileProgress([w2 EXCEPT !.log =
                                   Append(@, Did("sleep", env.check_interval * 100))])

\* lines 695-720 and 724-736: Client.progress has returned (p, s, m)
AfterProgress(w, p, s, m) ==
    LET w1 == [w EXCEPT !.progress = p, !.status = s, !.message = m,
                        !.polled = Append(@, s), !.log = <<>>]
    IN IF s = "failed"
       THEN [w1 EXCEPT !.pc = "raised",
                       !.exc = [type |-> "ProcessingFailedException", job_id |-> "j1",
                                message |-> m]]
       ELSE IF s = "canceled"
       THEN [w1 EXCEPT !.pc = "returned",
                       !.log = IF w.show_progress THEN <<Did("print_canceled", 0)>> ELSE <<>>]
       ELSE IF s = "paused"
       THEN [w1 EXCEPT !.pc = "returned", !.log = <<Did("print_paused", 0)>>]
       ELSE LET w2 == LogRunningWithErrors(w1) IN
            IF w.show_progress
            THEN LET w3 == [w2 EXCEPT !.progress = IF p = 0 THEN 1 ELSE p]
                 IN WhileProgress(Bar(w3, intervals))
            ELSE WhileProgress([w2 EXCEPT !.log =
                                   Append(@, Did("sleep", env.check_interval * 100))])

\* lines 674-694 and 722-723: the call, up to the first Client.progress
WaitForProcessing(show_progress) ==
    /\ wait.pc = "none"
    /\ wait' = WhileProgress([NoWait EXCEPT !.show_progress = show_progress])
    /\ UNCHANGED <<iter, log, yields, hist, tasks, files, requests, env, attempts, calls,
                   bound, sess>>

\* lines 652-670: Client.progress returns the progress, the status and the
\* message of the job
ProgressReturns(progress, status, message) ==
    /\ wait.pc = "polling"
    /\ Len(wait.polled) < MaxPolls
    /\ wait' = AfterProgress(wait, progress * 10, status, message)
    /\ UNCHANGED <<iter, log, yields, hist, tasks, files, requests, env, attempts, calls,
                   bound, sess>>

\* lines 671-672: the response is not ok, Client.progress raises, and
\* wait_for_processing catches nothing
ProgressRaises ==
    /\ wait.pc = "polling"
    /\ Len(wait.polled) < MaxPolls
    /\ wait' = [wait EXCEPT !.pc = "raised", !.polled = Append(@, "error"), !.log = <<>>,
                            !.exc = [type |-> "Exception", job_id |-> "", message |-> "http"]]
    /\ UNCHANGED <<iter, log, yields, hist, tasks, files, requests, env, attempts, calls,
                   bound, sess>>

(***************************************************************************)
(* Client._session (lines 160-167) and its callers: __init__ (line 158),   *)
(* _get_json on the caller's thread (line 771) and _download_file on the   *)
(* threads of the pool (line 887).  A call of _session is three steps:     *)
(* the test of line 162, create_session with the assignment to             *)
(* self.session (lines 163-166) and the return of line 167.                *)
(*   session   self.session: 0 for None, else the number of the Session    *)
(*   created   Session objects create_session has made                     *)
(*   call      the calls of _session: where each stands, the method it     *)
(*             was made from and the session it returned                   *)
(***************************************************************************)
SessionCalls == 1 .. MaxSessionCalls
NoCall == [pc |-> "none", site |-> "", got |-> 0]
NoSessions ==
    [built |-> FALSE, session |-> 0, created |-> 0, call |-> [k \in SessionCalls |-> NoCall]]
InSession == {"test", "create", "return"}
CallsIn(site) == { k \in SessionCalls : sess.call[k].site = site /\ sess.call[k].pc \in InSession }

\* lines 132-158: Client(should_validate_auth=...); with validation the
\* constructor calls _session() itself, before any other thread can
ClientInit(should_validate_auth) ==
    /\ ~sess.built
    /\ sess' = [sess EXCEPT !.built = TRUE,
                            !.session = IF should_validate_auth THEN 1 ELSE 0,
                            !.created = IF should_validate_auth THEN 1 ELSE 0]
    /\ UNCHANGED <<iter, log, yields, hist, tasks, files, requests, env, attempts, calls,
                   bound, wait>>

\* lines 771 and 887: a thread calls self._session(); one caller's thread,
\* and as many threads of the pool as it has workers
SessionEnter(k, site) ==
    /\ sess.built
    /\ sess.call[k].pc = "none"
    /\ \A j \in 1 .. k - 1 : sess.call[j].pc # "none"
    /\ site = "_get_json" => CallsIn(site) = {}
    /\ site = "_download_file" => Cardinality(CallsIn(site)) < env.NUM_REQUESTS_WORKERS
    /\ sess' = [sess EXCEPT !.call[k] = [pc |-> "test", site |-> site, got |-> 0]]
    /\ UNCHANGED <<iter, log, yields, hist, tasks, files, requests, env, attempts, calls,
                   bound, wait>>

\* line 162: `if self.session is None`
SessionTest(k) ==
    /\ sess.call[k].pc = "test"
    /\ sess' = [sess EXCEPT !.call[k].pc = IF sess.session = 0 THEN "create" ELSE "return"]
    /\ UNCHANGED <<iter, log, yields, hist, tasks, files, requests, env, attempts, calls,
                   bound, wait>>

\* lines 163-166: self.session = create_session(...)
SessionCreate(k) ==
    /\ sess.call[k].pc = "create"
    /\ sess' = [sess EXCEPT !.created = @ + 1,
                            !.session = sess.created + 1,
                            !.call[k].pc = "return"]
    /\ UNCHANGED <<iter, log, yields, hist, tasks, files, requests, env, attempts, calls,
                   bound, wait>>

\* line 167: `return self.session`
SessionReturn(k) ==
    /\ sess.call[k].pc = "return"
    /\ sess' = [sess EXCEPT !.call[k].pc = "done", !.call[k].got = sess.session]
    /\ UNCHANGED <<iter, log, yields, hist, tasks, files, requests, env, attempts, calls,
                   bound, wait>>

\* What a run is limited to: the iterators created, the calls of _get_json,
\* the links of a document, the statuses the service reports, the overwrite
\* arguments, the direct calls of download, the files there at the start,
\* the environment's settings, the client's check_interval and the times
\* that pass between a fetch and line 1122.
Bound(i, a, l, s, o, c, f, n, w, ci, el) ==
    [iters |-> i, attempts |-> a, links |-> l, statuses |-> s, overwrite |-> o,
     calls |-> c, files |-> f, limits |-> n, workers |-> w, intervals |-> ci,
     elapsed |-> el]

NoFiles == [fn \in Filenames |-> Absent]

\* lines 132-158: the client is constructed, nothing else has run
InitWith(b) ==
    /\ iter = [i \in Iters |-> NoIterator]
    /\ log = [i \in Iters |-> <<>>]
    /\ yields = [i \in Iters |-> <<>>]
    /\ hist = [i \in Iters |-> NoHistory]
    /\ tasks = <<>>
    /\ files \in b.files
    /\ requests = <<>>
    /\ env \in [GET_JSON_RETRY_LIMIT : b.limits, NUM_REQUESTS_WORKERS : b.workers,
                 check_interval : b.intervals]
    /\ attempts = 0
    /\ calls = <<>>
    /\ bound = b
    /\ wait = NoWait
    /\ sess = NoSessions

\* line 1122: the time that has passed matters only on the reload branch,
\* which a terminal or failed status never takes
Elapsed(doc) ==
    IF doc.empty \/ doc.status \in TerminalStatuses \cup {"failed"}
    THEN {0} ELSE bound.elapsed

NextIter ==
    \/ \E it \in Iters, o \in BOOLEAN : Iterator(it, o)
    \/ \E it \in Iters : NextFirst(it)
    \/ \E it \in Iters, elapsed \in bound.elapsed : NextResume(it, elapsed)
    \/ \E it \in Iters, doc \in Docs \cup {EmptyDoc} :
          \E elapsed \in Elapsed(doc) : GetJsonOk(it, doc, elapsed)
    \/ \E it \in Iters : GetJsonFail(it)

\* One iterator.
InitIter ==
    InitWith(Bound(1, MaxAttempts, MaxLinks, Statuses, {FALSE}, 0, {NoFiles},
                   1 .. MaxRetryLimit, {MaxWorkers}, {1}, 0 .. 1))
SpecIter == InitIter /\ [][NextIter]_vars

\* Several iterators for the same job.
InitTwo ==
    InitWith(Bound(NumIters, MaxAttemptsTwo, MaxLinksTwo, Statuses, {FALSE}, 0, {NoFiles},
                   1 .. MaxRetryLimit, {MaxWorkers}, {1}, 0 .. 1))
SpecTwo == InitTwo /\ [][NextIter]_vars

NextPool ==
    \/ NextIter
    \/ \E url \in CallHrefs, o \in BOOLEAN : Download(url, o)
    \/ \E t \in Tasks : TaskStart(t)
    \/ \E t \in Tasks, ok \in BOOLEAN : TaskRequest(t, ok)
    \/ \E t \in Tasks : TaskOpen(t)
    \/ \E t \in Tasks, ok \in BOOLEAN : TaskCopy(t, ok)

\* One iterator of a job that is running or has ended successfully, direct
\* calls of download, and the thread pool at work.  The file of the first
\* result item may be there from an earlier run.
InitPool ==
    InitWith(Bound(1, MaxAttemptsPool, MaxLinksPool, {"running", "successful"}, BOOLEAN,
                   MaxCalls, {NoFiles, [NoFiles EXCEPT ![<<"g1", "nc">>] = Old]},
                   {MaxRetryLimit}, 1 .. MaxWorkers, {1}, 0 .. 1))
SpecPool == InitPool /\ [][NextPool]_vars

\* The threads of the pool are scheduled, and a request and the reading of
\* a body come to an end, with a result or with an exception.
FairPool ==
    /\ WF_vars(\E t \in Tasks : TaskStart(t))
    /\ WF_vars(\E t \in Tasks, ok \in BOOLEAN : TaskRequest(t, ok))
    /\ WF_vars(\E t \in Tasks : TaskOpen(t))
    /\ WF_vars(\E t \in Tasks, ok \in BOOLEAN : TaskCopy(t, ok))
SpecPoolFair == SpecPool /\ FairPool

NextStream ==
    \/ NextIter
    \/ \E it \in Iters : NextEnded(it)
    \/ \E t \in Tasks : TaskStart(t)
    \/ \E t \in Tasks, ok \in BOOLEAN : TaskRequest(t, ok)
    \/ \E t \in Tasks : TaskOpen(t)
    \/ \E t \in Tasks, ok \in BOOLEAN : TaskCopy(t, ok)

\* One iterator consumed to its end and beyond, of a job that runs, succeeds
\* or fails, while the thread pool works on the downloads it dispatched.
InitStream ==
    InitWith(Bound(1, MaxAttemptsStream, MaxLinksStream, {"running", "successful", "failed"},
                   {FALSE}, 0, {NoFiles}, {1}, 1 .. MaxWorkers, {1}, {0}))
SpecStream == InitStream /\ [][NextStream]_vars
SpecStreamFair == SpecStream /\ FairPool

\* One iterator of a job that is running or has ended successfully, with the
\* check intervals and the elapsed times of the pacing test of line 1124 on
\* both of its sides; datetime.now() is the wall clock, so that an elapsed
\* time below zero is among them.
InitPace ==
    InitWith(Bound(1, MaxAttempts, MaxLinksTwo, {"running", "successful"}, {FALSE}, 0,
                   {NoFiles}, {1}, {MaxWorkers}, 0 .. MaxInterval, -1 .. MaxElapsed))
SpecPace == InitPace /\ [][NextIter]_vars

NextWait ==
    \/ \E show_progress \in BOOLEAN : WaitForProcessing(show_progress)
    \/ \E progress \in Progresses, status \in Statuses \ {"absent"}, message \in Messages :
          ProgressReturns(progress, status, message)
    \/ ProgressRaises

\* One call of wait_for_processing, with and without the progress bar.
InitWait ==
    InitWith(Bound(1, 0, 0, Statuses, {FALSE}, 0, {NoFiles}, {1}, {MaxWorkers},
                   1 .. MaxInterval, {0}))
SpecWait == InitWait /\ [][NextWait]_vars

\* One iterator, a caller and a service that go on for ever: the pages and
\* the calls of _get_json are counted up to MaxAttemptsLive, every fetch
\* comes to a page before the retry limit, and next links lead forward.
NextLive ==
    \/ \E it \in Iters, o \in BOOLEAN : Iterator(it, o)
    \/ \E it \in Iters : NextFirst(it)
    \/ \E it \in Iters, elapsed \in bound.elapsed : NextResume(it, elapsed)
    \/ \E it \in Iters, doc \in Docs :
          \E elapsed \in bound.elapsed : GetJsonOkForward(it, doc, elapsed)
    \/ \E it \in Iters : GetJsonFailBelowLimit(it)
InitLive ==
    InitWith(Bound(1, MaxAttemptsLive, MaxLinksLive, {"running", "successful", "failed"},
                   {FALSE}, 0, {NoFiles}, {MaxRetryLimit}, {MaxWorkers}, {1}, {0}))
\* The caller goes on calling next(), and _get_json comes to an answer.
FairLive ==
    \A it \in Iters :
        /\ WF_vars(NextFirst(it))
        /\ WF_vars(\E elapsed \in bound.elapsed : NextResume(it, elapsed))
        /\ WF_vars(\E doc \in Docs, elapsed \in bound.elapsed :
                     GetJsonOkForward(it, doc, elapsed))
SpecLive == InitLive /\ [][NextLive]_vars
SpecLiveFair == SpecLive /\ FairLive

NextSession ==
    \/ \E v \in BOOLEAN : ClientInit(v)
    \/ \E k \in SessionCalls, site \in {"_get_json", "_download_file"} : SessionEnter(k, site)
    \/ \E k \in SessionCalls : SessionTest(k)
    \/ \E k \in SessionCalls : SessionCreate(k)
    \/ \E k \in SessionCalls : SessionReturn(k)

\* One client, built with or without validation of the credentials, and
\* the calls of _session of its caller and of its pool.
InitSession ==
    InitWith(Bound(0, 0, 0, {}, {FALSE}, 0, {NoFiles}, {1}, 1 .. MaxWorkers, {1}, {0}))
SpecSession == InitSession /\ [][NextSession]_vars

(***************************************************************************)
(* Properties of the iterator.                                             *)
(***************************************************************************)
Last(s) == s[Len(s)]
Evs(it) == [k \in 1 .. Len(log[it]) |-> log[it][k].ev]
Has(it, e) == \E k \in 1 .. Len(log[it]) : log[it][k].ev = e
Max(a, b) == IF a >= b THEN a ELSE b

\* The latest fetch returned a page and the generator has made no
\* _get_json call since.
InPage(it) == Has(it, "get_json_ok")

\* The generator went through all links of the page fetched last.
LoopDone(it) ==
    /\ InPage(it)
    /\ Last(log[it]).ev \in {"reload", "sleep_pace", "follow_next", "return"}

\* The generator stands in, or stopped in, the for loop over the page
\* fetched last because a data link could not be dispatched or described.
Undispatchable(it) ==
    /\ iter[it].pc = "raised"
    /\ Last(log[it]).ev \in {"raise_zarr", "raise_keyerror"}

\* The descriptors yielded since the generator reached its current page.
StayYields(it) == SubSeq(yields[it], hist[it].stay_from + 1, Len(yields[it]))

\* The descriptors yielded from the page fetched last.
PageYields(it) == SubSeq(yields[it], hist[it].at + 1, Len(yields[it]))

\* The data links the page fetched last showed beyond the seen count.
Unseen(it) == Max(0, Len(hist[it].data) - hist[it].seen)

\* C1: over the reloads of one page (line 1120) that only append data links,
\* the k-th descriptor yielded from the page is data link number k of the
\* page, so no index is yielded twice or out of turn, and once the generator
\* has gone through a fetch of the page every data link of it has been
\* yielded.
C1_EachIndexOnce ==
    \A it \in Iters :
        LET h == hist[it]
            ys == StayYields(it)
        IN (h.n > 0 /\ h.stay_grown) =>
              /\ Len(ys) <= Len(h.data)
              /\ \A k \in 1 .. Len(ys) :
                    /\ ys[k].url = h.url
                    /\ ys[k].idx = k
                    /\ ys[k].href = h.data[k]
              /\ LoopDone(it) => Len(ys) = Len(h.data)

\* A page was reloaded, showed one more data link than the generator had
\* seen, and the generator has gone through it.
C1_Witness ==
    \E it \in Iters :
        /\ hist[it].came = "reload" /\ hist[it].stay_grown
        /\ hist[it].seen >= 1 /\ Len(hist[it].data) > hist[it].seen
        /\ LoopDone(it)

\* C2: a fetched page with status failed makes the generator raise the
\* page's message right after the fetch: nothing is yielded or submitted
\* from the page, no next link is taken, the generator is finished.
C2_FailedRaisesAtOnce ==
    \A it \in Iters :
        LET h == hist[it] IN
        (InPage(it) /\ h.status = "failed") =>
            /\ iter[it].pc = "raised"
            /\ iter[it].next_url = NoUrl
            /\ Last(log[it]) = Event("raise_failed", h.url, h.message)
            /\ log[it][Len(log[it]) - 1].ev = "get_json_ok"
            /\ Len(yields[it]) = h.at
            /\ Cardinality({t \in 1 .. Len(tasks) : tasks[t].by = it}) = h.at

\* A reloaded page is failed, carries the second message and shows a data
\* link the generator has not seen.
C2_Witness ==
    \E it \in Iters :
        /\ InPage(it) /\ hist[it].status = "failed" /\ hist[it].message = "m2"
        /\ hist[it].came = "reload" /\ hist[it].at >= 1
        /\ Len(hist[it].data) > hist[it].seen

Hrefs(ys) == [k \in 1 .. Len(ys) |-> ys[k].href]

\* C3: descriptors come in page order and, within a page, in link order;
\* each carries the link at its index; a page reached through a next link
\* is the one the link names; and when no page was reloaded the yielded
\* links are the pages' data links one page after the other, all of them
\* once the generator has returned.
C3_YieldOrder ==
    \A it \in Iters :
        LET h == hist[it]
            ys == yields[it]
        IN /\ \A i, j \in 1 .. Len(ys) :
                 i < j => \/ ys[i].page < ys[j].page
                          \/ ys[i].page = ys[j].page /\ ys[i].idx < ys[j].idx
           /\ \A k \in h.at + 1 .. Len(ys) :
                 /\ ys[k].url = h.url
                 /\ ys[k].idx <= Len(h.data)
                 /\ ys[k].href = h.data[ys[k].idx]
           /\ (iter[it].pc = "fetching" /\ h.why = "next") =>
                 (h.next # NoUrl /\ iter[it].next_url = h.next)
           /\ ~h.polled => IsPrefix(Hrefs(ys), h.expect)
           /\ (~h.polled /\ iter[it].pc = "returned") => Hrefs(ys) = h.expect

\* Two pages, the second reached through the next link of the first, both
\* with data links, no reload, and the generator has returned.
C3_Witness ==
    \E it \in Iters :
        /\ iter[it].pc = "returned" /\ ~hist[it].polled
        /\ hist[it].stay_no = 2
        /\ Len(yields[it]) = 3
        /\ yields[it][1].page = 1 /\ yields[it][2].page = 2

C5_RunningReloadsSameUrl ==
    \A it \in Iters :
        LET h == hist[it]
            ys == PageYields(it)
        IN (InPage(it) /\ h.status \in {"running", "running_with_errors"}
                       /\ h.next = NoUrl) =>
              /\ iter[it].pc \in {"yielded", "fetching", "raised"}
              /\ iter[it].pc = "raised" => Undispatchable(it)
              /\ iter[it].pc = "fetching" =>
                    /\ iter[it].fresh
                    /\ iter[it].next_url = h.url
                    /\ h.why = "reload"
                    /\ Len(ys) = Unseen(it)
                    /\ iter[it].current_page_granule_count = Max(h.seen, Len(h.data))

\* The second page, reached through a next link, is running and has been
\* reloaded; the reload shows it running still and the generator is about
\* to reload it again.
C5_Witness ==
    \E it \in Iters :
        /\ InPage(it) /\ hist[it].status = "running" /\ hist[it].next = NoUrl
        /\ hist[it].url = 2 /\ hist[it].came = "reload" /\ hist[it].n = 3
        /\ iter[it].pc = "fetching"

\* C6: when every _get_json call of a fetch raised, the generator raises
\* after exactly GET_JSON_RETRY_LIMIT calls, all for the same URL, with one
\* retry sleep after each call but the last, and has yielded nothing in
\* between.
C6_RetryExhaustion ==
    \A it \in Iters :
        (log[it] # <<>> /\ Last(log[it]).ev = "raise_unreachable"
                        /\ ~Has(it, "get_json_empty")) =>
            LET n == iter[it].limit IN
            /\ iter[it].pc = "raised"
            /\ Len(log[it]) = 2 * n
            /\ \A k \in 1 .. n : log[it][2 * k - 1].ev = "get_json_raise"
            /\ \A k \in 1 .. n - 1 : log[it][2 * k].ev = "sleep_retry"
            /\ \A k \in 1 .. 2 * n - 1 : log[it][k].url = log[it][1].url

\* The retry limit is 2, a first page was fetched and yielded from, and
\* the fetch after it failed twice.
C6_Witness ==
    \E it \in Iters :
        /\ iter[it].limit = 2 /\ hist[it].n = 1 /\ Len(yields[it]) = 1
        /\ Evs(it) = <<"get_json_raise", "sleep_retry", "get_json_raise",
                       "raise_unreachable">>

\* C7: when a fetch returned a page after k raising calls, k is below
\* GET_JSON_RETRY_LIMIT, the log of the fetch is k times (raising call,
\* retry sleep) and then the call that returned, k + 1 calls in all, and
\* what follows is what the page asks for: the unreachable error is not
\* raised, and an error is raised only for a failed page or for a data
\* link that cannot be dispatched or described.
C7_RetryThenSucceed ==
    \A it \in Iters :
        (InPage(it) /\ ~Has(it, "get_json_empty")) =>
            LET p == CHOOSE k \in 1 .. Len(log[it]) : log[it][k].ev = "get_json_ok"
                k == (p - 1) \div 2
            IN /\ p = 2 * k + 1
               /\ k < iter[it].limit
               /\ \A i \in 1 .. k :
                     /\ log[it][2 * i - 1].ev = "get_json_raise"
                     /\ log[it][2 * i].ev = "sleep_retry"
               /\ \A i \in p + 1 .. Len(log[it]) :
                     log[it][i].ev \in {"yield", "return", "reload", "sleep_pace",
                                        "follow_next", "raise_failed", "raise_zarr",
                                        "raise_keyerror"}
               /\ hist[it].status # "failed" /\ ~Undispatchable(it)
                     => iter[it].pc # "raised"

\* A fetch raised once and then returned a page, from which the generator
\* has yielded.
C7_Witness ==
    \E it \in Iters :
        /\ Len(log[it]) >= 4
        /\ SubSeq(Evs(it), 1, 4) = <<"get_json_raise", "sleep_retry", "get_json_ok", "yield">>
        /\ iter[it].pc = "yielded"

\* C8: every generator starts at the job's first status page with seen
\* count 0, whatever the other generators have done: its first fetch is of
\* that URL, its first descriptor is data link 1 of its page, and each of
\* its descriptors carries a future of its own, a task submitted by it for
\* the link's URL.
C8_FreshCursor ==
    \A it \in Iters :
        LET h == hist[it] IN
        /\ (iter[it].pc = "fetching" /\ h.n = 0) =>
              (iter[it].next_url = StatusUrl /\ iter[it].current_page_granule_count = 0)
        /\ h.n = 1 => (h.url = StatusUrl /\ h.seen = 0)
        /\ yields[it] # <<>> => yields[it][1].idx = 1
        /\ \A k \in 1 .. Len(yields[it]) :
              yields[it][k].page = 1 => yields[it][k].url = StatusUrl
        /\ \A k \in 1 .. Len(yields[it]) :
              LET y == yields[it][k] IN
              /\ y.future \in 1 .. Len(tasks)
              /\ tasks[y.future].by = it
              /\ tasks[y.future].url = y.href
              /\ \A j \in 1 .. Len(yields[it]) : j # k => yields[it][j].future # y.future

\* The second generator yields data link 1 of the first page after the
\* first generator had yielded the same link and gone on to reload the
\* page.
C8_Witness ==
    /\ yields[1] # <<>> /\ yields[2] # <<>>
    /\ yields[1][1].href = yields[2][1].href
    /\ yields[1][1].future < yields[2][1].future
    /\ iter[1].pc = "fetching" /\ hist[1].why = "reload"

(***************************************************************************)
(* Properties of the dispatcher and of the download task.                  *)
(***************************************************************************)
RequestsOf(t) == {r \in 1 .. Len(requests) : requests[r].task = t}
TasksBy(it) == {t \in Tasks : tasks[t].by = it}

\* C9: a data link whose URL ends with zarr is never yielded; when the
\* generator comes to it, as the next data link beyond its seen count,
\* download raises inside the caller's next() and the generator is
\* finished; a direct call of download with such a URL raises too; and no
\* task is ever submitted and no request ever sent for such a URL.
C9_ZarrRaisesAtOnce ==
    /\ \A it \in Iters :
          LET h == hist[it]
              n == iter[it].current_page_granule_count
          IN /\ \A k \in 1 .. Len(yields[it]) : ~EndsWithZarr(yields[it][k].href)
             /\ InPage(it) =>
                   \A k \in h.seen + 1 .. n :
                       EndsWithZarr(h.data[k]) =>
                           /\ k = n
                           /\ iter[it].pc = "raised"
                           /\ Last(log[it]).ev = "raise_zarr"
             /\ (log[it] # <<>> /\ Last(log[it]).ev = "raise_zarr") =>
                   /\ iter[it].pc = "raised"
                   /\ n > h.seen /\ n <= Len(h.data) /\ EndsWithZarr(h.data[n])
                   /\ Len(PageYields(it)) = n - 1 - h.seen
                   /\ Cardinality(TasksBy(it)) = Len(yields[it])
    /\ \A k \in 1 .. Len(calls) :
          /\ calls[k].raised <=> EndsWithZarr(calls[k].url)
          /\ calls[k].raised => calls[k].future = 0
          /\ ~calls[k].raised => tasks[calls[k].future].url = calls[k].url
    /\ Cardinality(TasksBy(0)) = Cardinality({k \in 1 .. Len(calls) : ~calls[k].raised})
    /\ \A t \in Tasks : ~EndsWithZarr(tasks[t].url)
    /\ \A r \in 1 .. Len(requests) : ~EndsWithZarr(requests[r].url)

\* The generator has raised at a zarr link while a task submitted by a
\* direct call has sent its request.
C9_Witness ==
    /\ \E it \in Iters : log[it] # <<>> /\ Last(log[it]).ev = "raise_zarr"
    /\ \E t \in Tasks : tasks[t].requested

\* C10: a task that has started took the way out of line 897 exactly when
\* overwrite was false and the file was there.  Then it is done with the
\* filename as its result, has sent no request and has not opened the
\* file.  Otherwise it sends one request, and when the request has brought
\* a response and the body is copied it is done with the filename as its
\* result and the file is there, written by a task.
C10_ShortCircuit ==
    \A t \in Tasks :
        LET k == tasks[t]
            fn == FilenameOf(t)
        IN k.st # "queued" =>
              IF ~k.overwrite /\ k.existed
              THEN /\ k.st = "done" /\ k.result = fn
                   /\ RequestsOf(t) = {}
                   /\ ~k.requested /\ ~k.wrote
                   /\ files[fn].writer # t
                   /\ files[fn].state # "absent"
              ELSE /\ k.st \in Requesting \cup {"done", "error"}
                   /\ k.st # "requesting" =>
                         (k.requested /\ Cardinality(RequestsOf(t)) = 1)
                   /\ k.st = "done" =>
                         /\ k.result = fn /\ k.wrote
                         /\ files[fn].state \in {"partial", "full", "mixed"}
                         /\ files[fn].writer \in Tasks

\* Two tasks for the same filename are done: one found the file and was
\* not to overwrite it, the other was to overwrite it and wrote it.
C10_Witness ==
    \E t, u \in Tasks :
        /\ FilenameOf(t) = FilenameOf(u)
        /\ tasks[t].st = "done" /\ ~tasks[t].overwrite /\ tasks[t].existed
        /\ tasks[u].st = "done" /\ tasks[u].overwrite /\ tasks[u].existed /\ tasks[u].wrote

(***************************************************************************)
(* Properties of the iterator together with the thread pool.               *)
(***************************************************************************)
\* What made the generator raise lies in the page it fetched last or in
\* its fetch, as lines 1084, 1089, 950 and 1099 have it.
RaisedForItsOwnReason(it) ==
    LET h == hist[it]
        n == iter[it].current_page_granule_count
        ev == Last(log[it]).ev
    IN \/ ev = "raise_failed" /\ h.status = "failed"
       \/ ev = "raise_unreachable" /\ iter[it].get_json_try_count >= iter[it].limit
       \/ ev = "raise_zarr" /\ EndsWithZarr(h.data[n])
       \/ ev = "raise_keyerror" /\ h.data[n] = Href("d1", "g2", "nc")

\* C11: a download that failed leaves its mark on its own task only.  The
\* generator raises for nothing but a failed job, an unreachable page or a
\* link it cannot dispatch or describe; having gone through a page it has
\* yielded every unseen data link of it, whatever became of the downloads;
\* and a task is in error only when its own request was sent and it or the
\* copy of its body raised.
C11_DownloadFailureIsolated ==
    /\ \A it \in Iters :
          /\ iter[it].pc = "raised" => RaisedForItsOwnReason(it)
          /\ LoopDone(it) => Len(PageYields(it)) = Unseen(it)
          /\ \A k \in 1 .. Len(yields[it]) : yields[it][k].future \in TasksBy(it)
    /\ \A t \in Tasks :
          /\ tasks[t].st = "error" => tasks[t].requested
          /\ tasks[t].st = "done" => tasks[t].result = FilenameOf(t)

\* A download failed, the generator yielded a further descriptor after
\* that and returned, and the download of that descriptor is done.
C11_Witness ==
    \E it \in Iters : \E t, u \in TasksBy(it) :
        /\ tasks[t].st = "error" /\ tasks[t].err_at < Len(yields[it])
        /\ tasks[u].st = "done" /\ t < u
        /\ iter[it].pc = "returned"

Pending(t) == tasks[t].st \in {"queued"} \cup Requesting

\* C12: whatever the state of the downloads, the caller's next() runs the
\* generator: a generator suspended at a yield can be resumed, one that
\* has not started can be started, one inside a fetch gets the outcome of
\* its _get_json call, one that has ended answers with StopIteration.
C12_NeverWaitsForDownload ==
    \A it \in Iters :
        /\ iter[it].pc = "created" => ENABLED NextFirst(it)
        /\ iter[it].pc = "yielded" => ENABLED NextResume(it, 0)
        /\ (iter[it].pc = "fetching" /\ attempts < bound.attempts) =>
              /\ ENABLED GetJsonFail(it)
              /\ ENABLED GetJsonOk(it, EmptyDoc, 0)
        /\ (iter[it].pc \in {"returned", "raised"} /\ iter[it].stops < MaxStops) =>
              ENABLED NextEnded(it)

\* The pool has one worker; the generator dispatched two downloads, made
\* a further fetch and returned, while the first download is at its
\* request and the second still queued.
C12_Witness ==
    \E it \in Iters :
        /\ env.NUM_REQUESTS_WORKERS = 1
        /\ iter[it].pc = "returned" /\ hist[it].n = 2
        /\ Len(yields[it]) = 2 /\ yields[it][2].page = 1 /\ hist[it].at = 2
        /\ tasks[yields[it][1].future].st = "requesting"
        /\ tasks[yields[it][2].future].st = "queued"

Executing == {t \in Tasks : tasks[t].st \in Requesting}
PoolTasks == MaxAttemptsPool * MaxLinksPool + MaxCalls

\* C13: at no time are more tasks inside _download_file than the pool has
\* workers (NUM_REQUESTS_WORKERS), whoever submitted them; and every task
\* that is queued is started at some later time.
C13_BoundedPool ==
    /\ [](Cardinality(Executing) <= env.NUM_REQUESTS_WORKERS)
    /\ \A t \in 1 .. PoolTasks :
          (t \in Tasks /\ tasks[t].st = "queued") ~> (t \in Tasks /\ tasks[t].st # "queued")

\* The pool's one worker is inside the download the iterator dispatched
\* while the download of a direct call waits in the queue.
C13_Witness ==
    \E t, u \in Tasks :
        /\ env.NUM_REQUESTS_WORKERS = 1
        /\ tasks[t].by \in Iters /\ tasks[t].st \in Requesting
        /\ tasks[u].by = 0 /\ tasks[u].st = "queued"

StreamTasks == MaxAttemptsStream * MaxLinksStream

\* The next step of a task that is under way can be taken.
CanGoOn(t) ==
    /\ tasks[t].st = "requesting" => ENABLED TaskRequest(t, TRUE)
    /\ tasks[t].st = "responded" => ENABLED TaskOpen(t)
    /\ tasks[t].st = "copying" => ENABLED TaskCopy(t, TRUE)
    /\ (/\ tasks[t].st = "queued"
        /\ \A j \in 1 .. t - 1 : tasks[j].st # "queued"
        /\ Cardinality(Executing) < env.NUM_REQUESTS_WORKERS) => ENABLED TaskStart(t)

\* C14: whatever the generator does after it dispatched a download, be it
\* suspended for good, returned or raised, the task is never cancelled, can
\* always take its next step, and comes to its own end, done or in error.
C14_DownloadsOutliveIterator ==
    /\ [](\A t \in Tasks :
            /\ tasks[t].st \in {"queued", "done", "error"} \cup Requesting
            /\ CanGoOn(t))
    /\ \A t \in 1 .. StreamTasks :
          (t \in Tasks) ~> (t \in Tasks /\ tasks[t].st \in {"done", "error"})

\* The job failed and the generator raised, the caller asked once more,
\* and of the two downloads dispatched before one is running and one is
\* queued.
C14_Witness ==
    \E it \in Iters : \E t, u \in TasksBy(it) :
        /\ iter[it].pc = "raised" /\ Last(log[it]).ev = "raise_failed"
        /\ iter[it].stops = 1
        /\ tasks[t].st \in Requesting /\ tasks[u].st = "queued"

Ended(it) == iter[it].pc \in {"returned", "raised"}
EndEvents ==
    {"return", "raise_failed", "raise_unreachable", "raise_zarr", "raise_keyerror"}

\* C15: a generator that has ended has ended once, by its return or by one
\* raise, the last event of its log; and from then on no step changes how
\* it ended, what it yielded, what it fetched or what it submitted.
C15_EndsOnce ==
    /\ [](\A it \in Iters :
            Ended(it) =>
                /\ Last(log[it]).ev \in EndEvents
                /\ (Last(log[it]).ev = "return") = (iter[it].pc = "returned")
                /\ \A k \in 1 .. Len(log[it]) - 1 : log[it][k].ev \notin EndEvents)
    /\ [][\A it \in Iters :
            Ended(it) =>
                /\ iter'[it].pc = iter[it].pc
                /\ log'[it] = log[it]
                /\ yields'[it] = yields[it]
                /\ hist'[it] = hist[it]
                /\ attempts' = attempts
                /\ Len(tasks') = Len(tasks)]_vars

\* The generator yielded a descriptor, raised because the page could not
\* be fetched, and the caller has called next() again.
C15_Witness ==
    \E it \in Iters :
        /\ iter[it].pc = "raised" /\ Last(log[it]).ev = "raise_unreachable"
        /\ Len(yields[it]) >= 1
        /\ iter[it].stops = MaxStops

SleepsAt(it, k) == k < Len(log[it]) /\ log[it][k + 1].ev = "sleep_pace"
Slept(it, k) == IF SleepsAt(it, k) THEN log[it][k + 1].secs ELSE 0

\* C16: when the generator goes back to load the page it has just handled
\* (line 1120), it sleeps check_interval minus the time since line 1071 of
\* the round before if that time is below check_interval and does not
\* sleep otherwise; a sleep is longer than zero, and the time since
\* line 1071 and the sleep together are at least check_interval.  A sleep
\* for pacing happens nowhere else.
C16_PacingSleep ==
    \A it \in Iters : \A k \in 1 .. Len(log[it]) :
        /\ log[it][k].ev = "reload" =>
              /\ SleepsAt(it, k) <=> log[it][k].secs < env.check_interval
              /\ Slept(it, k) = Max(0, env.check_interval - log[it][k].secs)
              /\ Slept(it, k) >= 0
              /\ log[it][k].secs + Slept(it, k) >= env.check_interval
              /\ log[it][k].url = iter[it].self_url
        /\ log[it][k].ev = "sleep_pace" =>
              /\ k > 1 /\ log[it][k - 1].ev = "reload"
              /\ log[it][k].secs > 0

\* The page was loaded a second time, and the generator goes back for a
\* third load before the interval is over and sleeps for the rest of it.
C16_Witness ==
    \E it \in Iters :
        /\ env.check_interval = MaxInterval /\ attempts >= 2
        /\ iter[it].pc = "fetching" /\ Len(log[it]) >= 2
        /\ Last(log[it]) = [Event("sleep_pace", iter[it].self_url, "")
                               EXCEPT !.secs = MaxInterval - 1]
        /\ log[it][Len(log[it]) - 1].ev = "reload"
        /\ log[it][Len(log[it]) - 1].secs = 1

Count(it) == iter[it].current_page_granule_count
OnLatest(it) == hist[it].url = iter[it].self_url
FollowsNext(it) == log'[it] # log[it] /\ Last(log'[it]).ev = "follow_next"

\* C17 as stated: current_page_granule_count is at most the number of data
\* links of the page fetched last from the current URL, and no step that
\* leaves the current URL as it is makes it smaller.
C17_Original ==
    /\ [](\A it \in Iters :
            Count(it) <= IF OnLatest(it) THEN Len(hist[it].data) ELSE 0)
    /\ [][\A it \in Iters :
            iter'[it].self_url = iter[it].self_url => Count(it)' >= Count(it)]_vars

\* C17: current_page_granule_count is at most the larger of the number of
\* data links of the page fetched last from the current URL and its own
\* value when that page arrived, and no step but the following of a next
\* link makes it smaller.
C17_SeenCountBounded ==
    /\ [](\A it \in Iters :
            Count(it) <= IF OnLatest(it)
                         THEN Max(hist[it].seen, Len(hist[it].data)) ELSE 0)
    /\ [][\A it \in Iters : ~FollowsNext(it) => Count(it)' >= Count(it)]_vars

\* A reload showed fewer data links than had been yielded from the page.
C17_Witness ==
    \E it \in Iters :
        /\ OnLatest(it) /\ hist[it].came = "reload"
        /\ Count(it) = MaxLinks /\ hist[it].seen = MaxLinks
        /\ Len(hist[it].data) < MaxLinks

Sleeps(w) == { k \in 1 .. Len(w.log) : w.log[k].ev = "sleep" }

\* C18: a poll of wait_for_processing that shows failed, canceled or
\* paused is its last one.  After failed the method has raised
\* ProcessingFailedException with the message of that poll, whatever the
\* progress of that poll; after canceled and paused it has returned
\* without an exception; and in all three cases it has not slept since
\* that poll.
C18_WaitStopsAtFailedCanceledPaused ==
    /\ \A k \in 1 .. Len(wait.polled) - 1 :
          wait.polled[k] \notin {"failed", "canceled", "paused"}
    /\ wait.polled # <<>> /\ Last(wait.polled) = "failed" =>
          /\ wait.pc = "raised"
          /\ wait.exc = [type |-> "ProcessingFailedException", job_id |-> "j1",
                         message |-> wait.message]
          /\ Sleeps(wait) = {}
    /\ wait.polled # <<>> /\ Last(wait.polled) \in {"canceled", "paused"} =>
          /\ wait.pc = "returned"
          /\ wait.exc = NoExc
          /\ Sleeps(wait) = {}

\* The polls showed running, then paused at a progress below 100, in a call
\* with the progress bar.
C18_Witness ==
    /\ wait.polled = <<"running", "paused">>
    /\ wait.show_progress /\ wait.progress = 500
    /\ wait.pc = "returned"

\* C19 as stated: a step that changes the current URL sets
\* current_page_granule_count to 0, and a step that leaves the current URL
\* as it is, a reload or a next link to the URL just fetched, does not.
C19_Original ==
    [][\A it \in Iters :
          /\ iter'[it].self_url # iter[it].self_url => Count(it)' = 0
          /\ iter'[it].self_url = iter[it].self_url => Count(it)' >= Count(it)]_vars

\* C19: a step that follows a next link sets current_page_granule_count
\* to 0, to whichever URL the link leads, and no other step, a reload
\* among them, makes it smaller.
C19_ResetWhenNextFollowed ==
    [][\A it \in Iters :
          /\ FollowsNext(it) => Count(it)' = 0
          /\ ~FollowsNext(it) => Count(it)' >= Count(it)]_vars

\* A page that yielded an item had a next link to its own URL, and the
\* generator has followed it.
C19_Witness ==
    \E it \in Iters :
        /\ iter[it].pc = "fetching" /\ Count(it) = 0
        /\ Has(it, "yield")
        /\ Last(log[it]).ev = "follow_next"
        /\ Last(log[it]).url = iter[it].self_url

\* The generator went through all links of the page fetched last and has
\* not moved on through a next link.
Stays(it) == LoopDone(it) /\ Last(log[it]).ev # "follow_next"

\* C20 as stated: the descriptors yielded from the page fetched last are
\* its data links beyond the seen count the page arrived at, in order, and
\* once the generator is through the page the count is the number of its
\* data links, also on a page that was reloaded with fewer data links.
C20_Original ==
    \A it \in Iters :
        LET h == hist[it]
            ys == PageYields(it)
        IN InPage(it) =>
              /\ Len(ys) <= Unseen(it)
              /\ \A k \in 1 .. Len(ys) :
                    ys[k].idx = h.seen + k /\ ys[k].href = h.data[h.seen + k]
              /\ LoopDone(it) => Len(ys) = Unseen(it)
              /\ Stays(it) => Count(it) = Len(h.data)

\* C20: the descriptors yielded from the page fetched last are its data
\* links beyond the seen count the page arrived at, in order; while the
\* generator stands at a yield the count is the index of the link it
\* yielded; and once it is through the page the count is the number of its
\* data links, or the count the page arrived at if that is larger.  (A
\* page with the status failed yields nothing, and a data link that
\* cannot be dispatched or described ends the page.)
C20_EmitsUnseenSuffix ==
    \A it \in Iters :
        LET h == hist[it]
            ys == PageYields(it)
        IN InPage(it) =>
              /\ Len(ys) <= Unseen(it)
              /\ \A k \in 1 .. Len(ys) :
                    ys[k].idx = h.seen + k /\ ys[k].href = h.data[h.seen + k]
              /\ LoopDone(it) => Len(ys) = Unseen(it)
              /\ iter[it].pc = "yielded" => Count(it) = h.seen + Len(ys)
              /\ Stays(it) => Count(it) = Max(h.seen, Len(h.data))

\* A reload showed fewer data links than had been yielded from the page,
\* and the generator has gone through it and goes back for another reload.
C20_Witness ==
    \E it \in Iters :
        /\ Stays(it) /\ iter[it].pc = "fetching"
        /\ hist[it].came = "reload"
        /\ Len(hist[it].data) < hist[it].seen
        /\ PageYields(it) = <<>>

AttemptEvents == {"get_json_ok", "get_json_empty", "get_json_raise"}
Attempts(it) == { k \in 1 .. Len(log[it]) : log[it][k].ev \in AttemptEvents }

\* C21: in one round of `while next_url` the generator calls _get_json at
\* most GET_JSON_RETRY_LIMIT times, whatever _get_json returns or raises,
\* and between two calls that follow one another it sleeps for the retry
\* delay.
C21_BoundedFetch ==
    \A it \in Iters :
        iter[it].pc \notin {"none", "created"} =>
            /\ Cardinality(Attempts(it)) <= iter[it].limit
            /\ \A j, k \in Attempts(it) :
                  (j < k /\ \A m \in Attempts(it) : ~(j < m /\ m < k)) =>
                      \E m \in j + 1 .. k - 1 : log[it][m].ev = "sleep_retry"

\* C22: a fetched page with a next link whose status is not failed does
\* not end the generator with a return, whatever its status; once the
\* generator is through its links it stands before the fetch of the URL of
\* the next link, and it has neither reloaded nor slept for pacing.  (A
\* data link that cannot be dispatched or described ends the page with a
\* raise.)
C22_NextLinkFollowed ==
    \A it \in Iters :
        (InPage(it) /\ hist[it].next # NoUrl /\ hist[it].status # "failed") =>
            /\ iter[it].pc \in {"yielded", "fetching"} \/ Undispatchable(it)
            /\ ~Has(it, "reload") /\ ~Has(it, "sleep_pace") /\ ~Has(it, "return")
            /\ LoopDone(it) =>
                  /\ Last(log[it]).ev = "follow_next"
                  /\ iter[it].pc = "fetching"
                  /\ iter[it].next_url = hist[it].next
                  /\ iter[it].self_url = hist[it].next

\* A page of a paused job with a data link and a next link: the item was
\* yielded and the generator stands before the fetch of the next page.
C22_Witness ==
    \E it \in Iters :
        /\ LoopDone(it) /\ hist[it].status = "paused"
        /\ hist[it].next = 2 /\ hist[it].url = StatusUrl
        /\ Len(PageYields(it)) = 1
        /\ iter[it].pc = "fetching" /\ iter[it].self_url = 2

\* The page fetched last, if it has no next link, shows a status at which
\* the job has ended.
LastPageEnded ==
    \A it \in Iters :
        (InPage(it) /\ hist[it].next = NoUrl) =>
            hist[it].status \in {"successful", "paused", "canceled",
                                 "complete_with_errors", "failed"}

\* C23: with a caller that goes on calling next(), fetches that come to a
\* page and next links that lead forward, if from some time on every fetch
\* of a page without next link shows an ended job, the generator comes to
\* an end, by its return or by a raise, and has yielded no more
\* descriptors than the pages had data links.
C23_EventuallyEnds ==
    /\ <>[]LastPageEnded => \A it \in Iters : [](iter[it].pc # "none" => <>Ended(it))
    /\ [](\A it \in Iters : Len(yields[it]) <= NumPages * MaxLinksLive)

\* The generator returned after a reload of the second page.
C23_Witness ==
    \E it \in Iters :
        /\ iter[it].pc = "returned" /\ hist[it].url = 2
        /\ hist[it].came = "reload" /\ hist[it].status = "successful"
        /\ Len(yields[it]) >= 1

Resolved(t) == tasks[t].st = "done"
OtherWriters(t) ==
    { u \in Tasks : u # t /\ FilenameOf(u) = FilenameOf(t) /\ tasks[u].wrote }

\* C24 as stated: the file a resolved task names holds the whole body of
\* one transfer that came to its end (a file left by an earlier run counts
\* as one), whatever other tasks do with the same filename.
C24_Original ==
    \A t \in Tasks :
        Resolved(t) => files[tasks[t].result].state \in {"full", "old"}

\* C24: a resolved task names the file of its URL.  If it made the
\* transfer itself and no other task has opened the file, the file holds
\* the whole body it copied; a task with overwrite set always makes the
\* transfer; and a task that made none was told not to overwrite and found
\* a file there, which it names as it is.
C24_ResolvedFile ==
    \A t \in Tasks :
        Resolved(t) =>
            /\ tasks[t].result = FilenameOf(t)
            /\ tasks[t].overwrite => tasks[t].wrote
            /\ (tasks[t].wrote /\ OtherWriters(t) = {}) =>
                  files[FilenameOf(t)] = File("full", t)
            /\ ~tasks[t].wrote =>
                  /\ ~tasks[t].overwrite /\ tasks[t].existed
                  /\ isfile(FilenameOf(t))

\* A task that was not to overwrite found the file another task had left
\* half-written when its transfer failed, and resolved to it.
C24_Witness ==
    \E t, u \in Tasks :
        /\ Resolved(t) /\ ~tasks[t].wrote /\ ~tasks[t].overwrite
        /\ u < t /\ FilenameOf(u) = FilenameOf(t)
        /\ tasks[u].st = "error" /\ tasks[u].wrote
        /\ files[FilenameOf(t)] = File("partial", u)

\* C25: whenever the generator stands at a yield or has ended, it has
\* submitted as many download tasks as it has yielded descriptors.
C25_OneTaskPerYield ==
    \A it \in Iters :
        iter[it].pc \in {"yielded", "returned", "raised"} =>
            Cardinality(TasksBy(it)) = Len(yields[it])

RaisesIn(it) == { k \in 1 .. Len(log[it]) : log[it][k].ev = "get_json_raise" }

\* C26: get_json_try_count is 0 at the top of every round of
\* `while next_url` and counts the raises of _get_json in that round only;
\* the generator gives up exactly when the raises of one round reach
\* GET_JSON_RETRY_LIMIT, however many calls raised in the rounds before.
C26_CounterPerFetch ==
    \A it \in Iters :
        iter[it].pc \notin {"none", "created"} =>
            /\ iter[it].fresh => iter[it].get_json_try_count = 0
            /\ ~iter[it].fresh =>
                  iter[it].get_json_try_count = Cardinality(RaisesIn(it))
            /\ (iter[it].pc = "fetching" /\ ~iter[it].fresh) =>
                  Cardinality(RaisesIn(it)) < iter[it].limit
            /\ (log[it] # <<>> /\ Last(log[it]).ev = "raise_unreachable") =>
                  Cardinality(RaisesIn(it)) = iter[it].limit

\* As many calls of _get_json have raised as the limit allows for one
\* fetch, one of them in a round before this one, and the generator is
\* about to try again.
C26_Witness ==
    \E it \in Iters :
        /\ iter[it].limit = MaxRetryLimit /\ hist[it].failed >= MaxRetryLimit
        /\ hist[it].n >= 1 /\ iter[it].pc = "fetching" /\ ~iter[it].fresh
        /\ Cardinality(RaisesIn(it)) = 1
        /\ Last(log[it]).ev = "sleep_retry"

\* C27: a fetched page without next link whose status is none of failed,
\* successful, paused, canceled and complete_with_errors, a page without
\* status among them, neither returns nor raises for its status: the
\* generator yields the data links beyond its seen count and then goes
\* back to the same URL through the reload of line 1120, sleeping first if
\* the interval is not over.  (A data link that cannot be dispatched or
\* described ends the page with a raise.)
C27_UnknownStatusGoesOn ==
    \A it \in Iters :
        LET h == hist[it] IN
        (InPage(it) /\ h.next = NoUrl
                    /\ h.status \notin {"failed", "successful", "paused", "canceled",
                                        "complete_with_errors"}) =>
            /\ ~Has(it, "return") /\ ~Has(it, "raise_failed")
            /\ iter[it].pc \in {"yielded", "fetching"} \/ Undispatchable(it)
            /\ iter[it].pc = "fetching" =>
                  /\ Last(log[it]).ev \in {"reload", "sleep_pace"}
                  /\ Has(it, "reload")
                  /\ iter[it].self_url = h.url /\ iter[it].next_url = h.url
                  /\ Len(PageYields(it)) = Unseen(it)

\* A page without status and with one data link: the item was yielded and
\* the generator, having slept, is about to fetch the page again.
C27_Witness ==
    \E it \in Iters :
        /\ InPage(it) /\ hist[it].status = "absent" /\ hist[it].next = NoUrl
        /\ Len(PageYields(it)) = 1
        /\ iter[it].pc = "fetching" /\ Last(log[it]).ev = "sleep_pace"

\* C28: create_session has made at most one Session, and all calls of
\* _session that have returned have returned the same one.
C28_OneSession ==
    /\ sess.created <= 1
    /\ \A j, k \in SessionCalls :
          (sess.call[j].pc = "done" /\ sess.call[k].pc = "done") =>
              sess.call[j].got = sess.call[k].got

\* C29: a step of a download task (one that changes the state of a task
\* already submitted) leaves the generator's cursor, its log, its yields and
\* the count of its fetches as they were, whether the task goes on, resolves
\* or fails; and no state of the pool holds the generator up: asked for its
\* next item it runs on, and a fetch in progress can end.
C29_CursorOwnedByIterator ==
    /\ [][(\E t \in Tasks : tasks'[t] # tasks[t]) =>
              UNCHANGED <<iter, log, yields, hist, attempts>>]_vars
    /\ [](\A it \in Iters :
             /\ iter[it].pc = "created" => ENABLED NextFirst(it)
             /\ iter[it].pc = "yielded" => ENABLED NextResume(it, 0)
             /\ (iter[it].pc = "fetching" /\ attempts < bound.attempts) =>
                   ENABLED GetJsonFail(it))
C29_Witness ==
    \E t, u \in Tasks :
        /\ tasks[t].st = "error"
        /\ tasks[u].st = "done"
        /\ YieldsOf(tasks[t].by) > tasks[t].err_at
        /\ iter[tasks[t].by].pc = "returned"

\* C30: wait_for_processing does not go on polling a job that has reached
\* a terminal status: once every poll allowed has answered successful,
\* complete_with_errors, canceled or failed, with whatever progress, the
\* call has returned or raised.
C30_TerminalEndsWait ==
    (/\ Len(wait.polled) = MaxPolls
     /\ \A i \in 1 .. MaxPolls :
           wait.polled[i] \in {"successful", "complete_with_errors", "canceled", "failed"})
        => wait.pc \in {"returned", "raised"}

=============================================================================
